---- MODULE Spec2Model ----
(***************************************************************************)
(* A model of the stickers data-access layer (src/stickers/__init__.py):   *)
(* three tables (stickers, collected_stickers, sticker_placements), the    *)
(* operations of class Stickers on them, and two interleaved grant_sticker *)
(* calls at statement granularity.                                          *)
(*                                                                          *)
(* Identifiers of every kind (sticker ids, row ids, user ids, subject ids)  *)
(* are 16-byte values of one space; they are modelled as 1..MaxId.  Python  *)
(* None for an identifier is modelled as 0, None for a time as 0.           *)
(***************************************************************************)
EXTENDS Integers, Sequences, FiniteSets, TLC

VARIABLES
    stickers,             \* the rows of the stickers table
    collected_stickers,   \* the rows of the collected_stickers table
    sticker_placements,   \* the rows of the sticker_placements table
    last,                 \* history: the last call, its arguments and its outcome
    calls,                \* the position of each interleaved caller of grant_sticker
    granted               \* history: the (user, sticker) pairs granted with success
                          \* since the last call of revoke_sticker

vars == <<stickers, collected_stickers, sticker_placements, last, calls, granted>>

tables == <<stickers, collected_stickers, sticker_placements>>

\* ------------------------------------------------------------------ bounds

MaxId == 2
MaxTime == 2
MaxRows == 2

\* Identifiers of stickers, users and subjects; primary keys of the rows of
\* collected_stickers and sticker_placements (the same space: they overlap).
Ids == 1..MaxId
RowIds == 1..MaxRows
Times == 1..MaxTime
None == 0

\* The two interleaved callers of grant_sticker.
Procs == {1, 2}

\* ------------------------------------------------- identifiers (parse_id)

\* get_id_bytes / parse_id: the raw form of a well-formed identifier; a
\* malformed one raises.  Raising is modelled by IsValidId being false; BadId
\* is a malformed identifier.
IsValidId(id) == id \in Ids \cup RowIds

BadId == -1

get_id_bytes(id) == id

\* generate_or_parse_id: a fresh random identifier (uuid, the caller of the
\* model picks it) when none is supplied, the parsed one otherwise.
generate_or_parse_id(id, uuid) == IF id = None THEN uuid ELSE get_id_bytes(id)

\* ------------------------------------------------------------ entity types

\* int.to_bytes(2, 'big') of Sticker.__init__: two bytes, most significant
\* first; raises OverflowError outside 0..65535.
FitsTwoBytes(n) == n \in 0..65535

to_bytes(n) == <<n \div 256, n % 256>>

\* int.from_bytes(bytes, 'big') of create_sticker / update_sticker.
from_bytes(b) == b[1] * 256 + b[2]

StickerFields ==
    {"creation_time", "name", "display", "category", "category_order", "group_bits"}

\* Keyword arguments are a record of the keys that were passed and a value for
\* every parameter (the value of a key that was not passed is never read).
NoValues ==
    [id |-> None, creation_time |-> None, name |-> "", display |-> "",
     category |-> "", category_order |-> 0, group_bits |-> 0]

Arg(kw, key, default) == IF key \in kw.keys THEN kw.val[key] ELSE default

\* Sticker.__init__ raises when group_bits does not fit two bytes or the id
\* does not parse.
StickerRaises(kw) ==
    \/ ~ FitsTwoBytes(Arg(kw, "group_bits", 0))
    \/ (Arg(kw, "id", None) # None /\ ~ IsValidId(Arg(kw, "id", None)))

\* Sticker.__init__: uuid is the identifier generated when none is passed, now
\* is int(time.time()).
Sticker(kw, uuid, now) ==
    [id |-> generate_or_parse_id(Arg(kw, "id", None), uuid),
     creation_time |->
        IF Arg(kw, "creation_time", None) = None THEN now
        ELSE Arg(kw, "creation_time", None),
     name |-> Arg(kw, "name", ""),
     display |-> Arg(kw, "display", ""),
     category |-> Arg(kw, "category", ""),
     category_order |-> Arg(kw, "category_order", 0),
     group_bits |-> to_bytes(Arg(kw, "group_bits", 0))]

\* CollectedSticker.__init__ (sticker is the enrichment, None at construction;
\* an absent sticker is the empty sequence, a present one a one-element one).
CollectedSticker(id, receive_time, user_id, sticker_id, uuid, now) ==
    [id |-> generate_or_parse_id(id, uuid),
     receive_time |-> IF receive_time = None THEN now ELSE receive_time,
     user_id |-> get_id_bytes(user_id),
     sticker_id |-> get_id_bytes(sticker_id),
     sticker |-> <<>>]

\* StickerPlacement.__init__
StickerPlacement(id, placement_time, subject_id, user_id, sticker_id, position_x, position_y, rotation, scale, uuid, subject_uuid, now) ==
    [id |-> generate_or_parse_id(id, uuid),
     placement_time |-> IF placement_time = None THEN now ELSE placement_time,
     subject_id |-> generate_or_parse_id(subject_id, subject_uuid),
     user_id |-> get_id_bytes(user_id),
     sticker_id |-> get_id_bytes(sticker_id),
     position_x |-> position_x,
     position_y |-> position_y,
     rotation |-> rotation,
     scale |-> scale,
     sticker |-> <<>>]

\* ------------------------------------------------ statement_helper, IDCollection

\* id_filter(filter, key, column): no condition when the filter has no such
\* key, membership of the column in the given identifiers otherwise.
id_filter(filter, key, column) == key \in DOMAIN filter => column \in filter[key]

\* sort_statement(statement, table, sort, order, default_sort, default_desc,
\* allowed): the rows ordered by the requested column when it is allowed and by
\* the default column otherwise, descending unless order says 'asc' (by the
\* default direction when order is empty).  Rows that tie come in any order:
\* the result is the set of the orders the engine may return.
SortColumn(sort, default_sort, allowed) == IF sort \in allowed THEN sort ELSE default_sort

SortDescending(order, default_desc) ==
    IF order = "desc" THEN TRUE ELSE IF order = "asc" THEN FALSE ELSE default_desc

RECURSIVE Ordered(_, _, _)
Ordered(rows, column, desc) ==
    IF rows = {} THEN {<<>>}
    ELSE UNION { { <<first>> \o rest : rest \in Ordered(rows \ {first}, column, desc) } :
                 first \in { r \in rows : \A o \in rows :
                                IF desc THEN r[column] >= o[column]
                                ELSE r[column] =< o[column] } }

sort_statement(rows, sort, order, default_sort, default_desc, allowed) ==
    Ordered(rows, SortColumn(sort, default_sort, allowed),
            SortDescending(order, default_desc))

\* paginate_statement(statement, page, perpage): everything when perpage is
\* None, else LIMIT perpage OFFSET page * perpage.
paginate_statement(result, page, perpage) ==
    IF perpage = None THEN result
    ELSE SubSeq(result, page * perpage + 1,
                IF (page + 1) * perpage < Len(result) THEN (page + 1) * perpage
                ELSE Len(result))

\* IDCollection: entities in insertion order, looked up by id.
Contains(collection, id) == \E i \in 1..Len(collection) : collection[i].id = id

\* IDCollection.get: the entity as a one-element sequence, <<>> when absent.
Get(collection, id) == SelectSeq(collection, LAMBDA e : e.id = id)

Values(collection) == { collection[i] : i \in 1..Len(collection) }

\* ------------------------------------------------------- retrieve stickers

\* prepare_stickers_search_statement: of the filter kinds it knows, the model
\* keeps the one on the key 'ids'; any other key contributes no condition.
prepare_stickers_search_statement(filter) ==
    { row \in stickers : id_filter(filter, "ids", row.id) }

count_stickers(filter) == Cardinality(prepare_stickers_search_statement(filter))

\* The Sticker built from a row of the stickers table.
StickerOfRow(row) ==
    Sticker([keys |-> StickerFields \cup {"id"},
             val |-> [id |-> row.id, creation_time |-> row.creation_time,
                      name |-> row.name, display |-> row.display,
                      category |-> row.category,
                      category_order |-> row.category_order,
                      group_bits |-> row.group_bits]],
            None, None)

\* search_stickers: the set of the collections the call may return.
search_stickers(filter, sort, order, page, perpage) ==
    { [i \in 1..Len(result) |-> StickerOfRow(result[i])] :
        result \in { paginate_statement(sorted, page, perpage) :
                       sorted \in sort_statement(
                           prepare_stickers_search_statement(filter),
                           sort, order, "creation_time", TRUE,
                           {"creation_time", "id"}) } }

\* get_sticker: the sticker as a one-element sequence, <<>> when absent.
get_sticker(id) ==
    Get(CHOOSE found \in search_stickers([ids |-> {id}], "", "", 0, None) : TRUE, id)

\* --------------------------------------------- retrieve collected stickers

prepare_collected_stickers_search_statement(filter) ==
    { row \in collected_stickers :
        /\ id_filter(filter, "ids", row.id)
        /\ id_filter(filter, "user_ids", row.user_id)
        /\ id_filter(filter, "sticker_ids", row.sticker_id) }

count_collected_stickers(filter) ==
    Cardinality(prepare_collected_stickers_search_statement(filter))

\* An enrichment that attaches the first sticker of the collection, whatever
\* its id.
EnrichedWithFirst(entity, found) ==
    IF Len(found) > 0 THEN [entity EXCEPT !.sticker = <<found[1]>>] ELSE entity

\* The enrichment loop of search_collected_stickers and of
\* search_sticker_placements: the entity gets the sticker the collection holds
\* under its sticker_id, and keeps None when the collection holds none.
Enriched(entity, found) ==
    IF Contains(found, entity.sticker_id)
    THEN [entity EXCEPT !.sticker = Get(found, entity.sticker_id)]
    ELSE entity

\* The secondary lookup of both searches: search_stickers with the filter key
\* 'sticker_ids' and the sticker ids of the result page.
StickersOfPage(result) ==
    search_stickers([sticker_ids |-> { result[i].sticker_id : i \in 1..Len(result) }],
                    "", "", 0, None)

\* search_collected_stickers: the set of the collections the call may return.
search_collected_stickers(filter, sort, order, page, perpage) ==
    UNION {
        IF Len(result) = 0 THEN {<<>>}
        ELSE { [i \in 1..Len(result) |->
                  Enriched(CollectedSticker(result[i].id, result[i].receive_time,
                                            result[i].user_id, result[i].sticker_id,
                                            None, None),
                           found)] :
               found \in StickersOfPage(result) } :
        result \in { paginate_statement(sorted, page, perpage) :
                       sorted \in sort_statement(
                           prepare_collected_stickers_search_statement(filter),
                           sort, order, "receive_time", TRUE,
                           {"receive_time", "id"}) } }

get_collected_stickers(user_id) ==
    search_collected_stickers([user_ids |-> {user_id}], "", "", 0, None)

\* get_collected_sticker: a one-element sequence, <<>> when absent.
get_collected_sticker(id) ==
    Get(CHOOSE found \in search_collected_stickers([ids |-> {id}], "", "", 0, None) : TRUE,
        id)

\* --------------------------------------------- retrieve sticker placements

prepare_sticker_placements_search_statement(filter) ==
    { row \in sticker_placements :
        /\ id_filter(filter, "ids", row.id)
        /\ id_filter(filter, "subject_ids", row.subject_id)
        /\ id_filter(filter, "user_ids", row.user_id)
        /\ id_filter(filter, "sticker_ids", row.sticker_id) }

count_sticker_placements(filter) ==
    Cardinality(prepare_sticker_placements_search_statement(filter))

\* search_sticker_placements: the set of the collections the call may return.
search_sticker_placements(filter, sort, order, page, perpage) ==
    UNION {
        IF Len(result) = 0 THEN {<<>>}
        ELSE { [i \in 1..Len(result) |->
                  Enriched(StickerPlacement(result[i].id, result[i].placement_time,
                                            result[i].subject_id, result[i].user_id,
                                            result[i].sticker_id,
                                            result[i].position_x, result[i].position_y,
                                            result[i].rotation, result[i].scale,
                                            None, None, None),
                           found)] :
               found \in StickersOfPage(result) } :
        result \in { paginate_statement(sorted, page, perpage) :
                       sorted \in sort_statement(
                           prepare_sticker_placements_search_statement(filter),
                           sort, order, "placement_time", TRUE,
                           {"placement_time", "id"}) } }

\* get_sticker_placement: a one-element sequence, <<>> when absent.
get_sticker_placement(id) ==
    Get(CHOOSE found \in search_sticker_placements([ids |-> {id}], "", "", 0, None) : TRUE,
        id)

\* ------------------------------------------------------------------- state

Idle ==
    [pc |-> "idle", sticker_id |-> None, user_id |-> None, id |-> None,
     receive_time |-> None, result |-> ""]

\* After Stickers.__init__ with install=True on an empty database.
Init ==
    /\ stickers = {}
    /\ collected_stickers = {}
    /\ sticker_placements = {}
    /\ last = [op |-> "__init__"]
    /\ calls = [p \in Procs |-> Idle]
    /\ granted = {}

\* ----------------------------------------------------- manipulate stickers

\* The row create_sticker inserts for a Sticker.
StickerRow(sticker) ==
    [id |-> sticker.id, creation_time |-> sticker.creation_time,
     name |-> sticker.name, display |-> sticker.display,
     category |-> sticker.category, category_order |-> sticker.category_order,
     group_bits |-> from_bytes(sticker.group_bits)]

\* A create_sticker without the preflight count, whose insert replaces the row
\* of the same id.
create_sticker_unchecked(kw, uuid, now) ==
    /\ UNCHANGED <<collected_stickers, sticker_placements, calls, granted>>
    /\ IF StickerRaises(kw)
       THEN /\ stickers' = stickers
            /\ last' = [op |-> "create_sticker", id |-> None, result |-> "raise"]
       ELSE LET sticker == Sticker(kw, uuid, now) IN
            /\ stickers' = { row \in stickers : row.id # sticker.id }
                               \cup {StickerRow(sticker)}
            /\ last' = [op |-> "create_sticker", id |-> sticker.id, result |-> "ok"]

create_sticker(kw, uuid, now) ==
    /\ UNCHANGED <<collected_stickers, sticker_placements, calls, granted>>
    /\ IF StickerRaises(kw)
       THEN /\ stickers' = stickers
            /\ last' = [op |-> "create_sticker", id |-> None, result |-> "raise"]
       ELSE LET sticker == Sticker(kw, uuid, now) IN
            IF count_stickers([ids |-> {sticker.id}]) > 0
            THEN /\ stickers' = stickers
                 /\ last' = [op |-> "create_sticker", id |-> sticker.id,
                             result |-> "Sticker ID collision"]
            ELSE /\ stickers' = stickers \cup {StickerRow(sticker)}
                 /\ last' = [op |-> "create_sticker", id |-> sticker.id, result |-> "ok"]

\* An updates dictionary that holds all six columns, passed or not.
UpdatesOfEveryColumn(kw, sticker) ==
    [key \in StickerFields |->
        IF key = "group_bits" THEN from_bytes(sticker.group_bits) ELSE sticker[key]]

\* The updates dictionary of update_sticker: the passed keys among the six
\* columns, each with the value the Sticker built from the arguments holds.
Updates(kw, sticker) ==
    [key \in kw.keys \cap StickerFields |->
        IF key = "group_bits" THEN from_bytes(sticker.group_bits) ELSE sticker[key]]

\* UPDATE stickers SET updates WHERE id = id
Updated(row, updates, column) ==
    IF column \in DOMAIN updates THEN updates[column] ELSE row[column]

UpdatedRow(row, updates) ==
    [id |-> row.id,
     creation_time |-> Updated(row, updates, "creation_time"),
     name |-> Updated(row, updates, "name"),
     display |-> Updated(row, updates, "display"),
     category |-> Updated(row, updates, "category"),
     category_order |-> Updated(row, updates, "category_order"),
     group_bits |-> Updated(row, updates, "group_bits")]

update_sticker(id, kw, now) ==
    /\ UNCHANGED <<collected_stickers, sticker_placements, calls, granted>>
    /\ IF StickerRaises(kw) \/ ~ IsValidId(id)
       THEN /\ stickers' = stickers
            /\ last' = [op |-> "update_sticker", id |-> id, kwargs |-> kw,
                        result |-> "raise"]
       ELSE LET sticker == Sticker([keys |-> kw.keys \cup {"id"},
                                    val |-> [kw.val EXCEPT !.id = id]], None, now)
                updates == Updates(kw, sticker)
            IN  /\ stickers' =
                      IF DOMAIN updates = {} THEN stickers
                      ELSE { IF row.id = sticker.id THEN UpdatedRow(row, updates) ELSE row :
                             row \in stickers }
                /\ last' = [op |-> "update_sticker", id |-> id, kwargs |-> kw,
                            result |-> "ok"]

delete_sticker(id) ==
    /\ IsValidId(id)
    /\ collected_stickers' = { row \in collected_stickers : ~ (row.id = get_id_bytes(id)) }
    /\ sticker_placements' = { row \in sticker_placements : ~ (row.id = get_id_bytes(id)) }
    /\ stickers' = { row \in stickers : ~ (row.id = get_id_bytes(id)) }
    /\ last' = [op |-> "delete_sticker", id |-> id, result |-> "ok"]
    /\ UNCHANGED <<calls, granted>>

\* ------------------------------------------- manipulate collected stickers

\* The row grant_sticker inserts for a CollectedSticker.
CollectedStickerRow(collected_sticker) ==
    [id |-> collected_sticker.id, receive_time |-> collected_sticker.receive_time,
     user_id |-> collected_sticker.user_id, sticker_id |-> collected_sticker.sticker_id]

\* A grant_sticker that skips the existence search: its outcome on a pair that
\* is owned already shows what the search is there for.
grant_sticker_unchecked(sticker_id, user_id, receive_time, uuid, now) ==
    /\ IsValidId(sticker_id) /\ IsValidId(user_id)
    /\ UNCHANGED <<stickers, sticker_placements, calls>>
    /\ LET collected_sticker ==
               CollectedSticker(None, receive_time, user_id, sticker_id, uuid, now)
       IN  IF count_collected_stickers([ids |-> {collected_sticker.id}]) > 0
           THEN /\ UNCHANGED <<collected_stickers, granted>>
                /\ last' = [op |-> "grant_sticker", sticker_id |-> sticker_id,
                            user_id |-> user_id,
                            result |-> "Collected sticker ID collision"]
           ELSE /\ collected_stickers' =
                      collected_stickers \cup {CollectedStickerRow(collected_sticker)}
                /\ granted' = granted \cup
                      {<<collected_sticker.user_id, collected_sticker.sticker_id>>}
                /\ last' = [op |-> "grant_sticker", sticker_id |-> sticker_id,
                            user_id |-> user_id, result |-> "ok"]

\* grant_sticker, one call run to its end with nothing interleaved.
grant_sticker(sticker_id, user_id, receive_time, uuid, now) ==
    /\ IsValidId(sticker_id) /\ IsValidId(user_id)
    /\ UNCHANGED <<stickers, sticker_placements, calls>>
    /\ \E collected \in search_collected_stickers(
              [user_ids |-> {get_id_bytes(user_id)},
               sticker_ids |-> {get_id_bytes(sticker_id)}], "", "", 0, None) :
          IF 0 < Len(collected)
          THEN /\ UNCHANGED <<collected_stickers, granted>>
               /\ last' = [op |-> "grant_sticker", sticker_id |-> sticker_id,
                           user_id |-> user_id,
                           result |-> "Specified user already has the specified sticker"]
          ELSE LET collected_sticker ==
                       CollectedSticker(None, receive_time, user_id, sticker_id, uuid, now)
               IN  IF count_collected_stickers([ids |-> {collected_sticker.id}]) > 0
                   THEN /\ UNCHANGED <<collected_stickers, granted>>
                        /\ last' = [op |-> "grant_sticker", sticker_id |-> sticker_id,
                                    user_id |-> user_id,
                                    result |-> "Collected sticker ID collision"]
                   ELSE /\ collected_stickers' =
                              collected_stickers \cup {CollectedStickerRow(collected_sticker)}
                        /\ granted' = granted \cup
                              {<<collected_sticker.user_id, collected_sticker.sticker_id>>}
                        /\ last' = [op |-> "grant_sticker", sticker_id |-> sticker_id,
                                    user_id |-> user_id,
                                    result |-> "ok"]

revoke_sticker(id) ==
    /\ IsValidId(id)
    /\ collected_stickers' = { row \in collected_stickers : ~ (row.id = get_id_bytes(id)) }
    /\ last' = [op |-> "revoke_sticker", id |-> id, result |-> "ok"]
    /\ granted' = {}
    /\ UNCHANGED <<stickers, sticker_placements, calls>>

\* ------------------------------------------- manipulate sticker placements

\* The row place_sticker inserts for a StickerPlacement.
StickerPlacementRow(sticker_placement) ==
    [id |-> sticker_placement.id,
     placement_time |-> sticker_placement.placement_time,
     subject_id |-> sticker_placement.subject_id,
     user_id |-> sticker_placement.user_id,
     sticker_id |-> sticker_placement.sticker_id,
     position_x |-> sticker_placement.position_x,
     position_y |-> sticker_placement.position_y,
     rotation |-> sticker_placement.rotation,
     scale |-> sticker_placement.scale]

\* place_sticker(**kwargs); p holds the arguments of StickerPlacement.  The
\* insert of a primary key the table already holds is refused by the table's
\* PrimaryKeyConstraint.
place_sticker(p, uuid, subject_uuid, now) ==
    /\ IsValidId(p.user_id) /\ IsValidId(p.sticker_id)
    /\ UNCHANGED <<stickers, collected_stickers, calls, granted>>
    /\ LET sticker_placement ==
               StickerPlacement(p.id, p.placement_time, p.subject_id, p.user_id,
                                p.sticker_id, p.position_x, p.position_y, p.rotation,
                                p.scale, uuid, subject_uuid, now)
       IN  IF \E row \in sticker_placements : row.id = sticker_placement.id
           THEN /\ sticker_placements' = sticker_placements
                /\ last' = [op |-> "place_sticker", id |-> sticker_placement.id,
                            result |-> "IntegrityError"]
           ELSE /\ sticker_placements' =
                      sticker_placements \cup {StickerPlacementRow(sticker_placement)}
                /\ last' = [op |-> "place_sticker", id |-> sticker_placement.id,
                            result |-> "ok"]

unplace_sticker(id) ==
    /\ IsValidId(id)
    /\ sticker_placements' = { row \in sticker_placements : ~ (row.id = get_id_bytes(id)) }
    /\ last' = [op |-> "unplace_sticker", id |-> id, result |-> "ok"]
    /\ UNCHANGED <<stickers, collected_stickers, calls, granted>>

\* The loop of prune_user_sticker_placements over placements.values(): the ids
\* of the placements its delete statement names.
PruneConditions(placements, maximum_stickers) ==
    { placements[i].id : i \in { j \in 1..Len(placements) : ~ (j < maximum_stickers) } }

prune_user_sticker_placements(subject_id, user_id, maximum_stickers) ==
    /\ UNCHANGED <<stickers, collected_stickers, calls, granted>>
    /\ last' = [op |-> "prune_user_sticker_placements", subject_id |-> subject_id,
                user_id |-> user_id, maximum_stickers |-> maximum_stickers,
                result |-> "ok"]
    /\ IF ~ IsValidId(subject_id) \/ ~ IsValidId(user_id)
       THEN sticker_placements' = sticker_placements
       ELSE \E placements \in search_sticker_placements(
                   [subject_ids |-> {get_id_bytes(subject_id)},
                    user_ids |-> {get_id_bytes(user_id)}],
                   "placement_time", "desc", 0, None) :
               LET conditions == PruneConditions(placements, maximum_stickers) IN
               IF conditions = {}
               THEN sticker_placements' = sticker_placements
               ELSE sticker_placements' =
                        { row \in sticker_placements :
                            ~ (/\ row.subject_id = get_id_bytes(subject_id)
                               /\ row.user_id = get_id_bytes(user_id)
                               /\ row.id \in conditions) }

unplace_by_user(user_id) ==
    /\ UNCHANGED <<stickers, collected_stickers, calls, granted>>
    /\ last' = [op |-> "unplace_by_user", user_id |-> user_id, result |-> "ok"]
    /\ IF ~ IsValidId(user_id)
       THEN sticker_placements' = sticker_placements
       ELSE sticker_placements' =
                { row \in sticker_placements : ~ (row.user_id = get_id_bytes(user_id)) }

\* ------------------------------------------------------------ anonymization

\* An anonymize_id that rewrites collected_stickers and leaves
\* sticker_placements as it is.
anonymize_id_collected_only(id, new_id, uuid) ==
    /\ IsValidId(id)
    /\ LET new == IF new_id = None THEN uuid ELSE new_id IN
       /\ collected_stickers' =
             { IF row.user_id = get_id_bytes(id) THEN [row EXCEPT !.user_id = new] ELSE row :
               row \in collected_stickers }
       /\ last' = [op |-> "anonymize_id", id |-> id, new_id |-> new_id,
                   returned |-> new, result |-> "ok"]
    /\ UNCHANGED <<stickers, sticker_placements, calls, granted>>

\* anonymize_id(id, new_id); uuid is uuid.uuid4().bytes, used when new_id is
\* not given.  The identifier returned is last.returned.
anonymize_id(id, new_id, uuid) ==
    /\ IsValidId(id)
    /\ LET new == IF new_id = None THEN uuid ELSE new_id IN
       /\ collected_stickers' =
             { IF row.user_id = get_id_bytes(id) THEN [row EXCEPT !.user_id = new] ELSE row :
               row \in collected_stickers }
       /\ sticker_placements' =
             { IF row.user_id = get_id_bytes(id) THEN [row EXCEPT !.user_id = new] ELSE row :
               row \in sticker_placements }
       /\ last' = [op |-> "anonymize_id", id |-> id, new_id |-> new_id,
                   returned |-> new, result |-> "ok"]
    /\ UNCHANGED <<stickers, calls, granted>>

\* The id uuid.uuid4() generates for anonymize_id is the user_id of no row.
UnusedUser(uuid) ==
    /\ \A row \in collected_stickers : row.user_id # uuid
    /\ \A row \in sticker_placements : row.user_id # uuid

\* ------------------------------------ grant_sticker, statement by statement

\* A caller enters grant_sticker(sticker_id, user_id).
GrantCall(p, sticker_id, user_id) ==
    /\ calls[p].pc = "idle"
    /\ IsValidId(sticker_id) /\ IsValidId(user_id)
    /\ calls' = [calls EXCEPT ![p] = [pc |-> "search", sticker_id |-> get_id_bytes(sticker_id),
                                      user_id |-> get_id_bytes(user_id), id |-> None,
                                      receive_time |-> None, result |-> ""]]
    /\ UNCHANGED <<tables, last, granted>>

\* The existence search and the test of its length.
GrantSearch(p) ==
    /\ calls[p].pc = "search"
    /\ \E collected \in search_collected_stickers(
              [user_ids |-> {calls[p].user_id}, sticker_ids |-> {calls[p].sticker_id}],
              "", "", 0, None) :
          calls' = [calls EXCEPT ![p] =
                      IF 0 < Len(collected)
                      THEN [@ EXCEPT !.pc = "done",
                              !.result = "Specified user already has the specified sticker"]
                      ELSE [@ EXCEPT !.pc = "count"]]
    /\ UNCHANGED <<tables, last, granted>>

\* The construction of the CollectedSticker (its id is generated) and the
\* preflight count of that id.
GrantCount(p, uuid, now) ==
    /\ calls[p].pc = "count"
    /\ LET collected_sticker ==
               CollectedSticker(None, None, calls[p].user_id, calls[p].sticker_id, uuid, now)
       IN  calls' = [calls EXCEPT ![p] =
                       IF count_collected_stickers([ids |-> {collected_sticker.id}]) > 0
                       THEN [@ EXCEPT !.pc = "done", !.id = collected_sticker.id,
                               !.result = "Collected sticker ID collision"]
                       ELSE [@ EXCEPT !.pc = "insert", !.id = collected_sticker.id,
                               !.receive_time = collected_sticker.receive_time]]
    /\ UNCHANGED <<tables, last, granted>>

\* An insert that looks for a row of the pair again, in one step with the
\* insert, as a lock or a transaction around grant_sticker would have it.
GrantInsertChecked(p) ==
    /\ calls[p].pc = "insert"
    /\ IF \E row \in collected_stickers :
             row.user_id = calls[p].user_id /\ row.sticker_id = calls[p].sticker_id
       THEN /\ UNCHANGED <<collected_stickers, granted>>
            /\ calls' = [calls EXCEPT ![p].pc = "done",
                           ![p].result = "Specified user already has the specified sticker"]
       ELSE /\ collected_stickers' = collected_stickers \cup
                   {CollectedStickerRow(CollectedSticker(calls[p].id, calls[p].receive_time,
                                                         calls[p].user_id,
                                                         calls[p].sticker_id, None, None))}
            /\ calls' = [calls EXCEPT ![p].pc = "done", ![p].result = "ok"]
            /\ granted' = granted \cup {<<calls[p].user_id, calls[p].sticker_id>>}
    /\ UNCHANGED <<stickers, sticker_placements, last>>

\* The insert; the table's PrimaryKeyConstraint refuses a primary key that is
\* already there.
GrantInsert(p) ==
    /\ calls[p].pc = "insert"
    /\ IF \E row \in collected_stickers : row.id = calls[p].id
       THEN /\ UNCHANGED <<collected_stickers, granted>>
            /\ calls' = [calls EXCEPT ![p].pc = "done", ![p].result = "IntegrityError"]
       ELSE /\ collected_stickers' = collected_stickers \cup
                   {CollectedStickerRow(CollectedSticker(calls[p].id, calls[p].receive_time,
                                                         calls[p].user_id,
                                                         calls[p].sticker_id, None, None))}
            /\ calls' = [calls EXCEPT ![p].pc = "done", ![p].result = "ok"]
            /\ granted' = granted \cup {<<calls[p].user_id, calls[p].sticker_id>>}
    /\ UNCHANGED <<stickers, sticker_placements, last>>

\* The call returns (or raises) and the caller may call again.
GrantReturn(p) ==
    /\ calls[p].pc = "done"
    /\ calls' = [calls EXCEPT ![p] = Idle]
    /\ last' = [op |-> "grant_sticker", sticker_id |-> calls[p].sticker_id,
                user_id |-> calls[p].user_id, result |-> calls[p].result]
    /\ UNCHANGED <<tables, granted>>

\* ------------------------------------------------------ the sequential store

\* Arguments of the calls.  A sticker is created with its id, or without one
\* and then with a generated one.
Kwargs(keys, val) == [keys |-> keys, val |-> val]

CreateKwargs ==
    { Kwargs({"id", "creation_time"}, [NoValues EXCEPT !.id = id, !.creation_time = 1]) :
      id \in Ids }
    \cup { Kwargs({"creation_time"}, [NoValues EXCEPT !.creation_time = 1]) }

Placement(id, placement_time, subject_id, user_id, sticker_id) ==
    [id |-> id, placement_time |-> placement_time, subject_id |-> subject_id,
     user_id |-> user_id, sticker_id |-> sticker_id,
     position_x |-> 0, position_y |-> 0, rotation |-> 0, scale |-> 0]

\* The operations on ownership, called by one caller at a time: grants and
\* revokes, anonymization onto a given or a generated id, deletes of stickers,
\* and placements placed and removed.
Next ==
    \/ \E sticker_id \in Ids, user_id \in Ids, uuid \in RowIds :
          grant_sticker(sticker_id, user_id, 1, uuid, 1)
    \/ \E id \in RowIds : revoke_sticker(id)
    \/ \E id \in Ids, new_id \in Ids \cup {None}, uuid \in Ids \cup {MaxId + 1} :
          /\ IF new_id = None THEN UnusedUser(uuid) ELSE uuid = 1
          /\ anonymize_id(id, new_id, uuid)
    \/ \E id \in Ids : delete_sticker(id)
    \/ \E user_id \in Ids : place_sticker(Placement(1, 1, 1, user_id, 1), 1, 1, 1)
    \/ \E id \in RowIds : unplace_sticker(id)

Spec == Init /\ [][Next]_vars

\* C4: in every state a sequence of store operations reaches there is at most
\* one CollectedSticker row per (user_id, sticker_id) pair.
C4_OneRowPerPair ==
    \A row \in collected_stickers, other \in collected_stickers :
        (row.user_id = other.user_id /\ row.sticker_id = other.sticker_id) => row = other

\* ------------------------------------------------------ deletes of stickers

\* Stickers are created, granted, placed and deleted.
NextDelete ==
    \/ \E kw \in CreateKwargs : create_sticker(kw, 1, 1)
    \/ \E id \in Ids : delete_sticker(id)
    \/ \E sticker_id \in Ids, uuid \in RowIds : grant_sticker(sticker_id, 1, 1, uuid, 1)
    \/ \E sticker_id \in Ids, uuid \in RowIds :
          place_sticker(Placement(None, 1, 1, 1, sticker_id), uuid, uuid, 1)

SpecDelete == Init /\ [][NextDelete]_vars

\* Rows of the two dependent tables that reference a sticker.
CollectedOf(sticker_id) == { row \in collected_stickers : row.sticker_id = sticker_id }

PlacementsOf(sticker_id) == { row \in sticker_placements : row.sticker_id = sticker_id }

\* C1: after delete_sticker(s) the sticker s is gone and no CollectedSticker row
\* and no StickerPlacement row whose sticker_id is s remains, and a get of the
\* sticker or of any such row returns absent.
C1_DeleteCascades ==
    last.op = "delete_sticker" =>
        /\ get_sticker(last.id) = <<>>
        /\ CollectedOf(last.id) = {}
        /\ PlacementsOf(last.id) = {}
        /\ \A id \in RowIds :
              /\ \A found \in Values(get_collected_sticker(id)) : found.sticker_id # last.id
              /\ \A found \in Values(get_sticker_placement(id)) : found.sticker_id # last.id

\* C11: delete_sticker(s) leaves in place every CollectedSticker row and every
\* StickerPlacement row whose sticker_id differs from s, and every sticker row
\* other than s, also when a row of one table has the primary key of a row of
\* another table.
C11_DeleteLeavesOtherRows ==
    [][ last'.op = "delete_sticker" =>
          /\ \A row \in collected_stickers :
                row.sticker_id # last'.id => row \in collected_stickers'
          /\ \A row \in sticker_placements :
                row.sticker_id # last'.id => row \in sticker_placements'
          /\ \A row \in stickers : row.id # last'.id => row \in stickers' ]_vars

\* ---------------------------------------------------- pruning of placements

\* Placements are placed, removed and pruned; a malformed subject or user id
\* reaches the two best-effort operations too.
NextPrune ==
    \/ \E subject_id \in Ids, user_id \in Ids, placement_time \in Times, uuid \in RowIds :
          place_sticker(Placement(None, placement_time, subject_id, user_id, 1), uuid, uuid, 1)
    \/ \E id \in RowIds : unplace_sticker(id)
    \/ \E subject_id \in Ids \cup {BadId}, user_id \in Ids \cup {BadId},
           maximum_stickers \in 0..(MaxRows + 1) :
          prune_user_sticker_placements(subject_id, user_id, maximum_stickers)
    \/ \E user_id \in Ids \cup {BadId} : unplace_by_user(user_id)

SpecPrune == Init /\ [][NextPrune]_vars

\* The placements of a (subject, user) pair in a state of the table.
PairPlacements(table, subject_id, user_id) ==
    { row \in table : row.subject_id = subject_id /\ row.user_id = user_id }

DistinctTimes(rows) ==
    \A row \in rows, other \in rows : row.placement_time = other.placement_time => row = other

\* The count most recent of rows with distinct times.
MostRecent(rows, count) ==
    { row \in rows :
        Cardinality({ other \in rows : other.placement_time > row.placement_time }) < count }

\* C2: for a pair holding n placements with distinct placement times and
\* 0 <= m < n, prune_user_sticker_placements(subject, user, m) deletes exactly
\* the n - m oldest placements of the pair and keeps exactly the m most recent.
C2_PruneKeepsMostRecent ==
    [][ (/\ last'.op = "prune_user_sticker_placements"
         /\ DistinctTimes(PairPlacements(sticker_placements,
                                         last'.subject_id, last'.user_id))
         /\ last'.maximum_stickers <
               Cardinality(PairPlacements(sticker_placements,
                                          last'.subject_id, last'.user_id)))
        => sticker_placements' =
             (sticker_placements
                \ PairPlacements(sticker_placements, last'.subject_id, last'.user_id))
             \cup MostRecent(PairPlacements(sticker_placements,
                                            last'.subject_id, last'.user_id),
                             last'.maximum_stickers) ]_vars

\* C3: prune_user_sticker_placements(subject, user, m) leaves the placements
\* table unchanged whenever the pair holds at most m placements, the case of
\* exactly m included.
C3_PruneWithinMaximumIsNoOp ==
    [][ (/\ last'.op = "prune_user_sticker_placements"
         /\ Cardinality(PairPlacements(sticker_placements,
                                       last'.subject_id, last'.user_id))
               =< last'.maximum_stickers)
        => sticker_placements' = sticker_placements ]_vars

\* ------------------------------------------------------- repeated grants

\* The stickers granted below.
GrantedStickers == {1, 2}

\* Grants, and everything that removes or rewrites an ownership row.
NextRegrant ==
    \/ \E sticker_id \in GrantedStickers, user_id \in Ids, uuid \in RowIds :
          grant_sticker(sticker_id, user_id, 1, uuid, 1)
    \/ \E id \in RowIds : revoke_sticker(id)
    \/ \E id \in Ids, new_id \in Ids : anonymize_id(id, new_id, new_id)
    \/ \E id \in RowIds : delete_sticker(id)

SpecRegrant == Init /\ [][NextRegrant]_vars

\* The ownership rows of a (user, sticker) pair in a state of the table.
PairRows(table, user_id, sticker_id) ==
    { row \in table : row.user_id = user_id /\ row.sticker_id = sticker_id }

DuplicateOwnership == "Specified user already has the specified sticker"

\* C5 as stated: when grant_sticker(s, u) has succeeded and no revoke_sticker
\* was called since, a grant_sticker(s, u) fails with the duplicate-ownership
\* error, inserts nothing, and exactly one row for (u, s) exists afterwards
\* (a call whose generated id collides is left aside).
C5_RegrantWithoutRevokeFails ==
    [][ (/\ last'.op = "grant_sticker"
         /\ last'.result # "Collected sticker ID collision"
         /\ <<last'.user_id, last'.sticker_id>> \in granted)
        => /\ last'.result = DuplicateOwnership
           /\ collected_stickers' = collected_stickers
           /\ Cardinality(PairRows(collected_stickers',
                                   last'.user_id, last'.sticker_id)) = 1 ]_vars

\* C5, amended: a grant_sticker(s, u) called while a row for (u, s) exists fails
\* with the duplicate-ownership error and inserts nothing; and when the call
\* before it was a grant_sticker(s, u) that succeeded, exactly one row for
\* (u, s) exists afterwards.
C5_GrantOfOwnedPairFails ==
    [][ last'.op = "grant_sticker" =>
          /\ PairRows(collected_stickers, last'.user_id, last'.sticker_id) # {}
                => /\ last'.result = DuplicateOwnership
                   /\ collected_stickers' = collected_stickers
          /\ (/\ last.op = "grant_sticker"
              /\ last.result = "ok"
              /\ last.user_id = last'.user_id
              /\ last.sticker_id = last'.sticker_id)
                => /\ last'.result = DuplicateOwnership
                   /\ collected_stickers' = collected_stickers
                   /\ Cardinality(PairRows(collected_stickers',
                                           last'.user_id, last'.sticker_id)) = 1 ]_vars

\* A second grant of a pair granted before, with no revoke since, has failed
\* and the pair has its one row.
C5_Witness ==
    /\ last.op = "grant_sticker"
    /\ last.result = DuplicateOwnership
    /\ <<last.user_id, last.sticker_id>> \in granted
    /\ Cardinality(PairRows(collected_stickers, last.user_id, last.sticker_id)) = 1

\* ------------------------------------------------------------ anonymization

\* Users collect a sticker, place it, and are anonymized onto a given id (their
\* own, a free one, one that is in use) or onto a generated one.
NextAnonymize ==
    \/ \E user_id \in Ids, uuid \in RowIds : grant_sticker(1, user_id, 1, uuid, 1)
    \/ \E user_id \in Ids : place_sticker(Placement(1, 1, 1, user_id, 1), 1, 1, 1)
    \/ \E id \in Ids, new_id \in Ids \cup {None}, uuid \in Ids \cup {MaxId + 1} :
          /\ IF new_id = None THEN UnusedUser(uuid) ELSE uuid = 1
          /\ anonymize_id(id, new_id, uuid)

SpecAnonymize == Init /\ [][NextAnonymize]_vars

\* The searches by user_id.
CollectedBy(user_id) == search_collected_stickers([user_ids |-> {user_id}], "", "", 0, None)

PlacementsBy(user_id) == search_sticker_placements([user_ids |-> {user_id}], "", "", 0, None)

\* Records with their user_id replaced, everything else kept.
Rewritten(records, new) == { [record EXCEPT !.user_id = new] : record \in records }

\* C6 as stated: anonymize_id(old, new) returns new; afterwards a search by
\* user_id old returns no rows in either table, and a search by user_id new
\* returns the rows, with their ids and other fields, that the search by old
\* returned before the call.
C6_AnonymizeMovesRows ==
    [][ \A old \in Ids, new \in Ids :
          (last'.op = "anonymize_id" /\ last'.id = old /\ last'.new_id = new)
          => /\ last'.returned = new
             /\ \A after \in CollectedBy(old)' : after = <<>>
             /\ \A after \in PlacementsBy(old)' : after = <<>>
             /\ \A before \in CollectedBy(old), after \in CollectedBy(new)' :
                   Values(after) = Rewritten(Values(before), new)
             /\ \A before \in PlacementsBy(old), after \in PlacementsBy(new)' :
                   Values(after) = Rewritten(Values(before), new) ]_vars

\* C6, amended: anonymize_id(old, new) returns new; afterwards a search by
\* user_id new returns in either table the rows the search by old returned
\* before the call, with their ids and other fields, together with the rows
\* the search by new returned before it; and when new differs from old a
\* search by old returns no rows in either table.
C6_AnonymizeMergesRows ==
    [][ \A old \in Ids, new \in Ids :
          (last'.op = "anonymize_id" /\ last'.id = old /\ last'.new_id = new)
          => /\ last'.returned = new
             /\ new # old => /\ \A after \in CollectedBy(old)' : after = <<>>
                             /\ \A after \in PlacementsBy(old)' : after = <<>>
             /\ \A before \in CollectedBy(old), held \in CollectedBy(new),
                   after \in CollectedBy(new)' :
                   Values(after) = Rewritten(Values(before), new) \cup Values(held)
             /\ \A before \in PlacementsBy(old), held \in PlacementsBy(new),
                   after \in PlacementsBy(new)' :
                   Values(after) = Rewritten(Values(before), new) \cup Values(held) ]_vars

\* After an anonymize_id onto a given id that was in use, the new id holds
\* two ownership rows of one sticker and a placement, and the old id nothing.
C6_Witness ==
    /\ last.op = "anonymize_id"
    /\ last.new_id # None
    /\ last.new_id # last.id
    /\ \E found \in CollectedBy(last.new_id) : Len(found) = 2
    /\ \E found \in PlacementsBy(last.new_id) : Len(found) > 0
    /\ \A found \in CollectedBy(last.id) : found = <<>>
    /\ \A found \in PlacementsBy(last.id) : found = <<>>

\* ------------------------------------------------------ creation of stickers

\* The arguments of create_sticker: with an id or without one, with a name,
\* and with group_bits left out, given, or given too large for two bytes.
CreateArguments ==
    { Kwargs(keys, [NoValues EXCEPT !.id = id, !.creation_time = 1, !.name = name,
                                    !.group_bits = group_bits]) :
        keys \in { {"creation_time", "name"} \cup ids \cup bits :
                     ids \in {{}, {"id"}}, bits \in {{}, {"group_bits"}} },
        id \in Ids, name \in {"a", "b"}, group_bits \in {1, 65536} }

\* Stickers are created and deleted; one is granted and placed.
NextCreate ==
    \/ \E kw \in CreateArguments, uuid \in Ids :
          /\ ("id" \in kw.keys => uuid = 1)
          /\ ("id" \notin kw.keys => kw.val.id = 1)
          /\ ("group_bits" \notin kw.keys => kw.val.group_bits = 1)
          /\ create_sticker(kw, uuid, 1)
    \/ \E id \in Ids : delete_sticker(id)
    \/ grant_sticker(1, 1, 1, 1, 1)
    \/ place_sticker(Placement(1, 1, 1, 1, 1), 1, 1, 1)

SpecCreate == Init /\ [][NextCreate]_vars

\* C7: a create_sticker whose id is the id of a row of the stickers table fails
\* with the collision error (when its arguments make a Sticker at all), and a
\* create_sticker that fails leaves the three tables as they were: the row of
\* that id keeps its fields.
C7_CreateCollisionChangesNothing ==
    [][ last'.op = "create_sticker" =>
          /\ (last'.result # "raise" /\ \E row \in stickers : row.id = last'.id)
                => last'.result = "Sticker ID collision"
          /\ last'.result # "ok" => tables' = tables ]_vars

\* A create_sticker collided with a sticker that is granted and placed.
C7_Witness ==
    /\ last.op = "create_sticker"
    /\ last.result = "Sticker ID collision"
    /\ \E row \in stickers : row.id = last.id
    /\ CollectedOf(last.id) # {}
    /\ PlacementsOf(last.id) # {}

\* ------------------------------------------------------- updates of stickers

\* The values update_sticker is called with: every column differs from what
\* create_sticker wrote.
UpdateValues ==
    [id |-> None, creation_time |-> None, name |-> "n", display |-> "d",
     category |-> "c", category_order |-> 1, group_bits |-> 257]

\* The arguments of update_sticker: any of the six fields with those values,
\* and a creation_time given as a number, and a group_bits too large for two
\* bytes.
UpdateArguments ==
    { Kwargs(keys, UpdateValues) : keys \in SUBSET StickerFields }
    \cup { Kwargs({"creation_time", "name"}, [UpdateValues EXCEPT !.creation_time = 1]),
           Kwargs({"name", "group_bits"}, [UpdateValues EXCEPT !.group_bits = 65536]) }

\* Two stickers are created and deleted, sticker 1 is granted, placed and
\* updated; an update with a malformed id is tried too.
NextUpdate ==
    \/ \E id \in {1, 2} :
          create_sticker(Kwargs({"id", "creation_time"},
                                [NoValues EXCEPT !.id = id, !.creation_time = 1]), 1, 1)
    \/ \E id \in {1, BadId}, kw \in UpdateArguments :
          /\ (id = BadId => kw.keys = {"name"})
          /\ update_sticker(id, kw, MaxTime)
    \/ \E id \in {1, 2} : delete_sticker(id)
    \/ grant_sticker(1, 1, 1, 1, 1)
    \/ place_sticker(Placement(1, 1, 1, 1, 1), 1, 1, 1)

SpecUpdate == Init /\ [][NextUpdate]_vars

\* The value update_sticker is to write to a column it was passed.
Supplied(kw, column, now) ==
    IF column = "creation_time" /\ kw.val[column] = None THEN now ELSE kw.val[column]

\* C8: an update_sticker(id, fields) that returns has written the supplied
\* fields, and only them, to the sticker row of that id: every other field of
\* the row, every other sticker row and the other two tables are as before;
\* with none of the six fields supplied, and when the call raises, nothing
\* changes and get_sticker(id) returns what it returned before.
C8_UpdateWritesSuppliedFields ==
    [][ \A id \in {1, BadId} :
          (last'.op = "update_sticker" /\ last'.id = id) =>
          LET kw == last'.kwargs IN
          /\ collected_stickers' = collected_stickers
          /\ sticker_placements' = sticker_placements
          /\ { row.id : row \in stickers' } = { row.id : row \in stickers }
          /\ \A row \in stickers : row.id # id => row \in stickers'
          /\ last'.result = "ok" =>
                \A row \in stickers, written \in stickers' :
                   (row.id = id /\ written.id = id) =>
                      \A column \in StickerFields :
                         written[column] = IF column \in kw.keys
                                           THEN Supplied(kw, column, MaxTime)
                                           ELSE row[column]
          /\ (last'.result = "raise" \/ kw.keys \cap StickerFields = {}) =>
                /\ stickers' = stickers
                /\ get_sticker(id)' = get_sticker(id) ]_vars

\* An update_sticker of some of the fields of a sticker that is granted and
\* placed, next to another sticker, has returned.
C8_Witness ==
    /\ last.op = "update_sticker"
    /\ last.result = "ok"
    /\ last.kwargs.keys \notin {{}, StickerFields}
    /\ \E row \in stickers : row.id = last.id
    /\ \E row \in stickers : row.id # last.id
    /\ CollectedOf(last.id) # {}
    /\ PlacementsOf(last.id) # {}

\* ------------------------------------------------------------------ searches

\* No filter at all.
NoFilter == [key \in {} |-> {}]

\* The calls of the searches; last.found is the collection returned.
call_search_collected_stickers(filter, sort, order, page, perpage) ==
    /\ \E found \in search_collected_stickers(filter, sort, order, page, perpage) :
          last' = [op |-> "search_collected_stickers", page |-> page, found |-> found]
    /\ UNCHANGED <<tables, calls, granted>>

call_get_collected_stickers(user_id) ==
    /\ \E found \in get_collected_stickers(user_id) :
          last' = [op |-> "get_collected_stickers", user_id |-> user_id, found |-> found]
    /\ UNCHANGED <<tables, calls, granted>>

call_search_sticker_placements(filter, sort, order, page, perpage) ==
    /\ \E found \in search_sticker_placements(filter, sort, order, page, perpage) :
          last' = [op |-> "search_sticker_placements", page |-> page, found |-> found]
    /\ UNCHANGED <<tables, calls, granted>>

\* The users and the row ids of the grants that are searched.
SearchedUsers == {1, 2}

SearchedRows == {1, 2}

\* Stickers are created, granted (created or not) and placed, and the
\* ownership rows and the placements are searched.
NextSearch ==
    \/ \E id \in Ids :
          create_sticker(Kwargs({"id", "creation_time", "group_bits"},
                                [NoValues EXCEPT !.id = id, !.creation_time = 1,
                                                 !.group_bits = 257]), 1, 1)
    \/ \E sticker_id \in Ids, user_id \in SearchedUsers, uuid \in SearchedRows :
          grant_sticker(sticker_id, user_id, 1, uuid, 1)
    \/ \E sticker_id \in Ids : place_sticker(Placement(1, 1, 1, 1, sticker_id), 1, 1, 1)
    \/ \E page \in {0, 1} : call_search_collected_stickers(NoFilter, "", "", page, 1)
    \/ \E user_id \in SearchedUsers : call_get_collected_stickers(user_id)
    \/ call_search_sticker_placements(NoFilter, "", "", 0, None)

SpecSearch == Init /\ [][NextSearch]_vars

\* The Sticker of the stickers table with the given id, as a one-element
\* sequence; <<>> when the table has none.
CatalogSticker(id) ==
    IF \E row \in stickers : row.id = id
    THEN <<StickerOfRow(CHOOSE row \in stickers : row.id = id)>>
    ELSE <<>>

\* C9: every record search_collected_stickers, get_collected_stickers(user) and
\* search_sticker_placements return carries in its sticker field the Sticker of
\* the stickers table whose id is the record's sticker_id when there is one,
\* and no sticker otherwise; and get_collected_stickers(user) returns the
\* ownership rows of the user, one record each (one record with sticker_id S1
\* and sticker S1 after create_sticker(S1) and grant_sticker(S1, user)).
C9_SearchResolvesStickers ==
    /\ last.op \in {"search_collected_stickers", "get_collected_stickers",
                     "search_sticker_placements"}
          => \A i \in 1..Len(last.found) :
                last.found[i].sticker = CatalogSticker(last.found[i].sticker_id)
    /\ last.op = "get_collected_stickers"
          => /\ { CollectedStickerRow(found) : found \in Values(last.found) }
                   = { row \in collected_stickers : row.user_id = last.user_id }
             /\ Len(last.found) =
                   Cardinality({ row \in collected_stickers : row.user_id = last.user_id })

\* get_collected_stickers has returned one record, whose sticker is the sticker
\* of its sticker_id, while the catalog holds another sticker too.
C9_Witness ==
    /\ last.op = "get_collected_stickers"
    /\ Len(last.found) = 1
    /\ last.found[1].sticker # <<>>
    /\ last.found[1].sticker[1].id = last.found[1].sticker_id
    /\ Cardinality(stickers) > 1

\* ------------------------------------------------------- interleaved grants

\* Two callers of grant_sticker, interleaved statement by statement.
NextConcurrent ==
    \/ \E p \in Procs, user_id \in Ids : GrantCall(p, 1, user_id)
    \/ \E p \in Procs : GrantSearch(p)
    \/ \E p \in Procs, uuid \in RowIds : GrantCount(p, uuid, 1)
    \/ \E p \in Procs : GrantInsert(p)
    \/ \E p \in Procs : GrantReturn(p)

SpecConcurrent == Init /\ [][NextConcurrent]_vars

\* C10: nothing between the existence search and the insert of grant_sticker
\* looks at the pair again: a caller that has passed the search and the count
\* inserts its row whenever the row's id is free, also when the other caller
\* has inserted a row for the same pair since; so two rows for one pair are
\* reachable.
C10_InsertDoesNotRecheck ==
    [][ \A p \in Procs :
          (/\ calls[p].pc = "insert"
           /\ calls'[p].pc = "done"
           /\ ~ \E row \in collected_stickers : row.id = calls[p].id)
          => /\ calls'[p].result = "ok"
             /\ collected_stickers' = collected_stickers \cup
                   {[id |-> calls[p].id, receive_time |-> calls[p].receive_time,
                     user_id |-> calls[p].user_id, sticker_id |-> calls[p].sticker_id]} ]_vars

\* Both callers have granted the same sticker to the same user with success,
\* and the pair has two rows.
C10_Witness ==
    /\ \A p \in Procs : calls[p].pc = "done" /\ calls[p].result = "ok"
    /\ calls[1].user_id = calls[2].user_id
    /\ calls[1].sticker_id = calls[2].sticker_id
    /\ Cardinality(PairRows(collected_stickers, calls[1].user_id, calls[1].sticker_id)) = 2

====
